---- MODULE Spec2Model ----
(***************************************************************************)
(* Model of devlib/trace/perf.py: PerfCollector, the controller that       *)
(* drives perf / simpleperf on a remote target.                            *)
(*                                                                         *)
(* File names and the tool's name are sequences of one-character strings,  *)
(* so that Python's substring test  'x' in name  and  str.format  are      *)
(* computed, not assumed.  Python's None is the string "None" where a      *)
(* string is expected and the empty sequence where a path is expected.     *)
(***************************************************************************)
EXTENDS Integers, Sequences, FiniteSets, TLC

\* ------------------------------------------------------------------ bounds
\* Largest number of option strings / labels handed to the constructor.
MaxVariants == 2
\* The retry bound of the completion wait.  The source sets 10000
\* (perf.py:249); the model scales it down, every formula is stated in terms
\* of max_tries.
max_tries == 2

\* ------------------------------------------------------- strings, literals
None == "None"

sPerf == <<"p", "e", "r", "f">>
sSimpleperf == <<"s", "i", "m", "p", "l", "e">> \o sPerf
sBogus == <<"f", "t", "r", "a", "c", "e">>
sSleep == <<"s", "l", "e", "e", "p">>
sRpt == <<"r", "p", "t">>
sData == <<"d", "a", "t", "a">>
sRptsamples == sRpt \o <<"s", "a", "m", "p", "l", "e", "s">>
sOut == <<"o", "u", "t">>
sTemporaryFile == <<"T", "e", "m", "p", "o", "r", "a", "r", "y", "F", "i", "l", "e">>
sDot == <<".">>
\* A file of the working directory that is no perf artifact.
sNotes == <<"n", "o", "t", "e", "s">>

DigitChars == <<"0", "1", "2", "3", "4", "5", "6", "7", "8", "9">>

\* '{}'.format(i) for a natural number i
RECURSIVE Str(_)
Str(i) == IF i < 10 THEN <<DigitChars[i + 1]>>
          ELSE Str(i \div 10) \o <<DigitChars[(i % 10) + 1]>>

\* Python's  sub in s  on strings
Contains(sub, s) ==
    \E i \in 1..(Len(s) - Len(sub) + 1) : SubSeq(s, i, i + Len(sub) - 1) = sub

\* Python's  x or ''
OrEmpty(x) == IF x = None \/ x = "" THEN "" ELSE x

PERF_DEFAULT_EVENTS == <<"cpu-migrations", "context-switches">>

SIMPLEPERF_DEFAULT_EVENTS ==
    <<"raw-cpu-cycles", "raw-l1-dcache", "raw-l1-dcache-refill",
      "raw-br-mis-pred", "raw-instruction-retired">>

DEFAULT_EVENTS(perf_type) ==
    IF perf_type = sPerf THEN PERF_DEFAULT_EVENTS ELSE SIMPLEPERF_DEFAULT_EVENTS

\* ------------------------------------------------------------------ state
VARIABLES
    pc,          \* position of the caller: "new", "failed", "idle", or a step of get_trace
    args,        \* the constructor's arguments
    self,        \* the fields of the PerfCollector object
    files,       \* names of the files in the target's working directory
    installed,   \* where the target holds a binary of the tool: "user" (installed by devlib), "system" (on PATH)
    procs,       \* indexes of the commands whose background process is alive
    host,        \* names of the files in the outdir of the last get_trace call
    op,          \* the public operation called last
    raised,      \* the exception the last operation ended with, or "none"
    log,         \* the target calls (and logger warnings) of the last operation
    idx,         \* get_trace: index of the label being processed
    current_tries, \* _wait_for_data_file_write: the retry counter
    starts       \* history: start() calls since construction or the last reset(): 0, 1, or 2 for two or more

vars == <<pc, args, self, files, installed, procs, host, op, raised, log, idx,
          current_tries, starts>>

\* ------------------------------------------------------- commands and log
NoCmd == [binary |-> <<>>, sub |-> "", options |-> "", events |-> <<>>,
          datafile |-> <<>>, outfile |-> <<>>, redirect |-> FALSE]

\* One call on the target (or one logger warning) made by an operation.
Call(c, name, sig, cmd) == [call |-> c, name |-> name, sig |-> sig, cmd |-> cmd]

\* '{}.{}'.format(label, extension) under target.get_workpath: the model
\* keeps the name relative to the working directory.
_get_target_file(label, extension) == label \o sDot \o extension

\* '-e {}'.format(e) for e in events, joined
EventString(events) == [i \in 1..Len(events) |-> <<"-e", events[i]>>]

_build_perf_stat_command(s, options, events, label) ==
    [binary |-> s.binary, sub |-> s.command, options |-> OrEmpty(options),
     events |-> EventString(events), datafile |-> <<>>,
     outfile |-> _get_target_file(label, sOut), redirect |-> TRUE]

_build_perf_record_command(s, options, label) ==
    [binary |-> s.binary, sub |-> "record", options |-> OrEmpty(options),
     events |-> EventString(s.events), datafile |-> <<>>,
     outfile |-> _get_target_file(label, sData), redirect |-> FALSE]

_build_perf_report_command(s, report_options, label) ==
    [binary |-> s.binary, sub |-> "report", options |-> OrEmpty(report_options),
     events |-> <<>>, datafile |-> _get_target_file(label, sData),
     outfile |-> _get_target_file(label, sRpt), redirect |-> TRUE]

_build_perf_report_samples_command(s, report_options, label) ==
    [binary |-> s.binary, sub |-> "report-sample", options |-> OrEmpty(report_options),
     events |-> <<>>, datafile |-> _get_target_file(label, sData),
     outfile |-> _get_target_file(label, sRptsamples), redirect |-> TRUE]

Min(a, b) == IF a < b THEN a ELSE b

\* zip(self.optionstrings, self.labels) stops at the shorter sequence
_build_commands(s) ==
    [i \in 1..Min(Len(s.optionstrings), Len(s.labels)) |->
        IF s.command = "stat"
        THEN _build_perf_stat_command(s, s.optionstrings[i], s.events, s.labels[i])
        ELSE _build_perf_record_command(s, s.optionstrings[i], s.labels[i])]

\* ------------------------------------------------- constructor arguments
\* A caller's label: 'r0', 'r1', ...
UserLabel(i) == <<"r">> \o Str(i - 1)

UserOption(i) == IF i = 1 THEN "-a" ELSE "-a -i"

\* labels=None, or a list of 0..MaxVariants labels
ArgLabels ==
    {[kind |-> "none", val |-> <<>>]} \cup
    {[kind |-> "list", val |-> [i \in 1..n |-> UserLabel(i)]] : n \in 0..MaxVariants}

\* optionstring=None, one string, or a list of 0..MaxVariants strings
ArgOptions ==
    {[kind |-> "none", scalar |-> None, val |-> <<>>],
     [kind |-> "str", scalar |-> "-a", val |-> <<>>]} \cup
    {[kind |-> "list", scalar |-> None, val |-> [i \in 1..n |-> UserOption(i)]] :
        n \in 0..MaxVariants}

\* events=None, one string, or a list
ArgEvents ==
    {[kind |-> "none", scalar |-> None, val |-> <<>>],
     [kind |-> "str", scalar |-> "cycles", val |-> <<>>],
     [kind |-> "list", scalar |-> None, val |-> <<"cycles", "instructions">>]}

Args ==
    [perf_type : {sPerf, sSimpleperf, sBogus},
     command : {"stat", "record", "top"},
     events : ArgEvents,
     optionstring : ArgOptions,
     report_options : {None, "--sort"},
     labels : ArgLabels,
     force_install : BOOLEAN]

\* The object before __init__ has assigned anything.
NoSelf ==
    [force_install |-> FALSE, labels |-> <<>>, report_options |-> None,
     optionstrings |-> <<>>, perf_type |-> <<>>, events |-> <<>>, command |-> "",
     binary |-> <<>>, commands |-> <<>>]

\* ------------------------------------------------------------ __init__
\* isinstance(optionstring, list)
InitOptionstrings(a) ==
    IF a.optionstring.kind = "list" THEN a.optionstring.val ELSE <<a.optionstring.scalar>>

InitPerfTypeOk(a) == a.perf_type \in {sPerf, sSimpleperf}

\* not events: None, '' and [] all take the default table; a string is wrapped
InitEvents(a) ==
    IF a.events.kind = "none" \/ (a.events.kind = "list" /\ a.events.val = <<>>)
    THEN DEFAULT_EVENTS(a.perf_type)
    ELSE IF a.events.kind = "str" THEN <<a.events.scalar>> ELSE a.events.val

\* not self.labels: None and [] are both replaced by 'perf_<i>'
InitLabels(a) ==
    IF a.labels.kind = "none" \/ a.labels.val = <<>>
    THEN [i \in 1..Len(InitOptionstrings(a)) |-> sPerf \o <<"_">> \o Str(i - 1)]
    ELSE a.labels.val

\* mutant: only too many labels are refused
InitLabelsOk_OnlyTooMany(a) == Len(InitLabels(a)) <= Len(InitOptionstrings(a))

InitLabelsOk(a) == Len(InitLabels(a)) = Len(InitOptionstrings(a))

InitCommandOk(a) == a.command \in {"stat", "record"}

\* the first failing check of __init__, or "none"
InitError(a) ==
    IF ~InitPerfTypeOk(a) THEN "ValueError: perf type"
    ELSE IF ~InitLabelsOk(a) THEN "ValueError: labels"
    ELSE IF ~InitCommandOk(a) THEN "ValueError: command"
    ELSE "none"

\* target.execute('cd <workdir> && ls')
Ls == Call("execute ls", <<>>, "", NoCmd)

\* _is_simpleperf_file_busy: a line of ls equal to perf_type
_is_simpleperf_file_busy(a, fs) == a.perf_type \in fs

\* the path target.install returns, and target.get_installed for a copy
\* installed by devlib
BinPath(perf_type) == <<"b", "i", "n", "/">> \o perf_type

\* the path target.get_installed returns for a binary found on the PATH
SysPath(perf_type) == <<"/", "s", "y", "s", "/">> \o perf_type

\* the binaries left when __init__ reaches get_installed: target.uninstall
\* takes away the copy devlib installed, not one that came with the system
InitInstalledAtQuery(a, fs, inst) ==
    IF _is_simpleperf_file_busy(a, fs) THEN inst \ {"user"} ELSE inst

\* self.force_install or not self.binary
InitDeploys(a, fs, inst) == a.force_install \/ InitInstalledAtQuery(a, fs, inst) = {}

\* self.binary when __init__ returns
InitBinary(a, fs, inst) ==
    IF InitDeploys(a, fs, inst) \/ "user" \in InitInstalledAtQuery(a, fs, inst)
    THEN BinPath(a.perf_type)
    ELSE SysPath(a.perf_type)

\* the fields assigned up to the point where __init__ raises or returns
InitSelf(a, fs, inst) ==
    LET s0 == [NoSelf EXCEPT !.force_install = a.force_install,
                             !.labels = a.labels.val,
                             !.report_options = a.report_options,
                             !.optionstrings = InitOptionstrings(a)]
        s1 == [s0 EXCEPT !.perf_type = a.perf_type,
                         !.events = InitEvents(a),
                         !.labels = InitLabels(a)]
        s2 == [s1 EXCEPT !.command = a.command,
                         !.binary = InitBinary(a, fs, inst)]
    IN  IF ~InitPerfTypeOk(a) THEN s0
        ELSE IF ~InitLabelsOk(a) \/ ~InitCommandOk(a) THEN s1
        ELSE [s2 EXCEPT !.commands = _build_commands(s2)]

\* the target calls of lines 124-132, made once validation has passed
InitCalls(a, fs, inst) ==
    <<Ls>>
    \o (IF _is_simpleperf_file_busy(a, fs)
        THEN <<Call("execute rm", a.perf_type, "", NoCmd),
               Call("uninstall", a.perf_type, "", NoCmd)>>
        ELSE <<>>)
    \o <<Call("get_installed", a.perf_type, "", NoCmd)>>
    \o (IF InitDeploys(a, fs, inst)
        THEN <<Call("install", a.perf_type, "", NoCmd)>> ELSE <<>>)
    \o <<Ls>>

\* mutant: the command is validated after the binary has been resolved
InitLog_LateCommandCheck(a, fs, inst) ==
    IF InitError(a) \in {"none", "ValueError: command"}
    THEN InitCalls(a, fs, inst) ELSE <<>>

\* the target calls of __init__: every raise comes before the first of them
InitLog(a, fs, inst) ==
    IF InitError(a) = "none" THEN InitCalls(a, fs, inst) ELSE <<>>

\* the working directory when __init__ is over
InitFilesAfter(a, fs) ==
    IF InitError(a) = "none" THEN fs \ {a.perf_type} ELSE fs

\* the binaries on the target when __init__ is over
InitInstalledAfter(a, fs, inst) ==
    IF InitError(a) # "none" THEN inst
    ELSE InitInstalledAtQuery(a, fs, inst)
         \cup (IF InitDeploys(a, fs, inst) THEN {"user"} ELSE {})

Construct ==
    /\ pc = "new"
    /\ op' = "__init__"
    /\ raised' = InitError(args)
    /\ self' = InitSelf(args, files, installed)
    /\ pc' = IF InitError(args) = "none" THEN "idle" ELSE "failed"
    /\ log' = InitLog(args, files, installed)
    /\ files' = InitFilesAfter(args, files)
    /\ installed' = InitInstalledAfter(args, files, installed)
    /\ UNCHANGED <<args, procs, host, idx, current_tries, starts>>

\* ------------------------------------------------------------ reset
\* mutant: every listed file is taken for an artifact
ResetMatches_Everything(file) == Len(file) >= 0

\* the test of perf.py:148 on one name of the listing
ResetMatches(file) ==
    \/ Contains(sDot \o sRpt, file)
    \/ Contains(sDot \o sData, file)
    \/ Contains(sDot \o sRptsamples, file)
    \/ Contains(sTemporaryFile, file)

\* the names of a listing, in the order the loop visits them
RECURSIVE Listing(_)
Listing(fs) ==
    IF fs = {} THEN <<>>
    ELSE LET f == CHOOSE x \in fs : TRUE IN <<f>> \o Listing(fs \ {f})

\* mutant: a remove for every name of the listing
ResetRemoves_Untested(names) ==
    [k \in 1..Len(names) |-> Call("remove", names[k], "", NoCmd)]

\* the target.remove calls of reset() on the listing fs
RECURSIVE ResetRemoves(_)
ResetRemoves(names) ==
    IF names = <<>> THEN <<>>
    ELSE (IF ResetMatches(Head(names))
          THEN <<Call("remove", Head(names), "", NoCmd)>> ELSE <<>>)
         \o ResetRemoves(Tail(names))

\* the working directory after the removes of reset()
ResetFiles(fs) == {f \in fs : ~ResetMatches(f)}

\* mutant: the files are removed before the tool is killed
ResetCalls_KillLast(s, fs) ==
    <<Ls>> \o ResetRemoves(Listing(fs))
    \o <<Ls, Call("killall", s.perf_type, "default", NoCmd)>>

\* the target calls of reset(), in order
ResetCalls(s, fs) ==
    <<Call("killall", s.perf_type, "default", NoCmd), Ls>>
    \o ResetRemoves(Listing(fs)) \o <<Ls>>

Reset ==
    /\ pc = "idle"
    /\ op' = "reset"
    /\ raised' = "none"
    /\ log' = ResetCalls(self, files)
    /\ procs' = {}
    /\ files' = ResetFiles(files)
    /\ starts' = 0
    /\ UNCHANGED <<pc, args, self, installed, host, idx, current_tries>>

\* ------------------------------------------------------------ start
\* mutant: only the first command is launched
StartCalls_FirstOnly(s) ==
    [i \in 1..Min(1, Len(s.commands)) |-> Call("background", <<>>, "", s.commands[i])]
    \o <<Call("get_pids_of", sSimpleperf, "", NoCmd)>>

\* target.background(command) for every built command, in order
StartCalls(s) ==
    [i \in 1..Len(s.commands) |-> Call("background", <<>>, "", s.commands[i])]
    \o <<Call("get_pids_of", sSimpleperf, "", NoCmd)>>

\* mutant: the commands are taken off the object as they are launched
Start_ConsumesCommands ==
    /\ pc = "idle"
    /\ op' = "start"
    /\ raised' = "none"
    /\ log' = StartCalls(self)
    /\ procs' = procs \cup (1..Len(self.commands))
    /\ starts' = Min(starts + 1, 2)
    /\ self' = [self EXCEPT !.commands = <<>>]
    /\ UNCHANGED <<pc, args, files, installed, host, idx, current_tries>>

Start ==
    /\ pc = "idle"
    /\ op' = "start"
    /\ raised' = "none"
    /\ log' = StartCalls(self)
    /\ procs' = procs \cup (1..Len(self.commands))
    /\ starts' = Min(starts + 1, 2)
    /\ UNCHANGED <<pc, args, self, files, installed, host, idx, current_tries>>

\* ------------------------------------------------------------ stop
\* killall without a signal argument sends the target's default signal
StopCalls(s) ==
    <<Call("get_pids_of", sSimpleperf, "", NoCmd),
      Call("killall", s.perf_type, "SIGINT", NoCmd),
      Call("killall", sSleep, "default", NoCmd),
      Call("get_pids_of", sSimpleperf, "", NoCmd)>>

Stop ==
    /\ pc = "idle"
    /\ op' = "stop"
    /\ raised' = "none"
    /\ log' = StopCalls(self)
    /\ UNCHANGED <<pc, args, self, files, installed, procs, host, idx,
                   current_tries, starts>>

\* ------------------------------------------------------------ get_trace
\* 'TemporaryFile' in files, on the text of the listing: the pattern holds no
\* line break, so it occurs in the text iff it occurs in one of the names
MarkerListed(fs) == \E f \in fs : Contains(sTemporaryFile, f)

\* mutant: record mode goes straight to the pulls
LabelEntry_NoWait(s, i) == IF i > Len(s.labels) THEN "idle" ELSE "pull"

\* where get_trace goes for label number i: past the last label it returns
LabelEntry(s, i) ==
    IF i > Len(s.labels) THEN "idle"
    ELSE IF s.command = "record" THEN "wait" ELSE "pull"

\* get_trace(outdir): the caller hands in a directory that holds nothing yet
GetTrace ==
    /\ pc = "idle"
    /\ op' = "get_trace"
    /\ raised' = "none"
    /\ log' = <<>>
    /\ idx' = 1
    /\ current_tries' = 0
    /\ pc' = LabelEntry(self, 1)
    /\ host' = {}
    /\ UNCHANGED <<args, self, files, installed, procs, starts>>

\* mutant: the loop goes round whatever the listing holds
WaitSleeps_IgnoresListing(fs, tries) == tries <= max_tries

\* the condition of perf.py:254 under which the loop sleeps and goes round again
WaitSleeps(fs, tries) == MarkerListed(fs) /\ tries <= max_tries

\* mutant: the counter is not advanced
TriesAfterSleep_Forgotten(tries) == tries

\* current_tries += 1
TriesAfterSleep(tries) == tries + 1

\* mutant: the warning waits for the counter to pass the bound
WaitWarns_PastBound(tries) == tries > max_tries

\* the condition of perf.py:258 under which the warning is logged
WaitWarns(tries) == tries >= max_tries

\* One round of the loop of _wait_for_data_file_write.  A round that sleeps
\* lists the directory, sleeps and counts: current_tries is the number of
\* such rounds so far, and the log keeps only the listing of the round that
\* leaves the loop.
WaitPoll ==
    /\ pc = "wait"
    /\ IF WaitSleeps(files, current_tries)
       THEN /\ log' = log
            /\ current_tries' = TriesAfterSleep(current_tries)
            /\ pc' = "wait"
       ELSE /\ log' = log \o <<Ls>>
                      \o (IF WaitWarns(current_tries)
                          THEN <<Call("warning", self.labels[idx], "", NoCmd)>>
                          ELSE <<>>)
            /\ current_tries' = current_tries
            /\ pc' = "report"
    /\ UNCHANGED <<args, self, files, installed, procs, host, op, raised, idx, starts>>

\* target.execute of a report command raises when the tool exits non-zero,
\* which it does when its data file is missing; the shell's redirect has
\* created the output file by then
ExecuteFails(fs, cmd) == cmd.datafile \notin fs

\* mutant: a failed report empties outdir before the exception is passed on
Report_RollsBack ==
    /\ pc = "report"
    /\ LET label == self.labels[idx]
           rpt == _build_perf_report_command(self, self.report_options, label)
           smp == _build_perf_report_samples_command(self, "--show-callchain", label)
       IN  IF ExecuteFails(files, rpt)
           THEN /\ log' = log \o <<Call("execute", <<>>, "", rpt)>>
                /\ files' = files \cup {rpt.outfile}
                /\ raised' = "TargetError"
                /\ pc' = "idle"
                /\ host' = {}
           ELSE /\ log' = log \o <<Call("execute", <<>>, "", rpt),
                                   Call("execute", <<>>, "", smp)>>
                /\ files' = files \cup {rpt.outfile, smp.outfile}
                /\ raised' = "none"
                /\ pc' = "pull"
                /\ host' = host
    /\ UNCHANGED <<args, self, installed, procs, op, idx, current_tries, starts>>

\* the two report commands at the end of _wait_for_data_file_write
Report ==
    /\ pc = "report"
    /\ LET label == self.labels[idx]
           rpt == _build_perf_report_command(self, self.report_options, label)
           smp == _build_perf_report_samples_command(self, "--show-callchain", label)
       IN  IF ExecuteFails(files, rpt)
           THEN /\ log' = log \o <<Call("execute", <<>>, "", rpt)>>
                /\ files' = files \cup {rpt.outfile}
                /\ raised' = "TargetError"
                /\ pc' = "idle"
           ELSE /\ log' = log \o <<Call("execute", <<>>, "", rpt),
                                   Call("execute", <<>>, "", smp)>>
                /\ files' = files \cup {rpt.outfile, smp.outfile}
                /\ raised' = "none"
                /\ pc' = "pull"
    /\ UNCHANGED <<args, self, installed, procs, host, op, idx, current_tries, starts>>

\* mutant: the mode is not looked at
PullExtensions_AnyMode(s) == <<sRpt, sData, sRptsamples>>

\* the extensions get_trace pulls for one label, in order
PullExtensions(s) ==
    IF s.command = "record" THEN <<sRpt, sData, sRptsamples>> ELSE <<sOut>>

\* how many of the pulls are made: target.pull raises on the first missing file
RECURSIVE PullsMade(_, _, _)
PullsMade(fs, label, exts) ==
    IF exts = <<>> THEN 0
    ELSE IF _get_target_file(label, Head(exts)) \notin fs THEN 1
    ELSE 1 + PullsMade(fs, label, Tail(exts))

\* whether every file of the label was there to be pulled
PullsOk(fs, label, exts) ==
    \A k \in 1..Len(exts) : _get_target_file(label, exts[k]) \in fs

\* the _pull_target_file_to_host calls of get_trace for the label at idx; an
\* exception of target.pull leaves get_trace
Pull ==
    /\ pc = "pull"
    /\ LET label == self.labels[idx]
           exts == PullExtensions(self)
           n == PullsMade(files, label, exts)
           ok == PullsOk(files, label, exts)
       IN  /\ log' = log \o [k \in 1..n |->
                                Call("pull", _get_target_file(label, exts[k]), "", NoCmd)]
           /\ host' = host \cup {_get_target_file(label, exts[k]) :
                                    k \in 1..(IF ok THEN n ELSE n - 1)}
           /\ IF ok
              THEN /\ raised' = "none"
                   /\ idx' = idx + 1
                   /\ pc' = LabelEntry(self, idx + 1)
              ELSE /\ raised' = "TargetError"
                   /\ idx' = idx
                   /\ pc' = "idle"
    /\ current_tries' = 0
    /\ UNCHANGED <<args, self, files, installed, procs, op, starts>>

\* ------------------------------------------------- the tool on the target
\* the transient file a recording process keeps while it writes its data
Marker(i) == sTemporaryFile \o <<"-">> \o Str(i)

\* A live process writes: stat creates <label>.out through the redirect of
\* its command line, record creates its transient file.
ToolWrite(i) ==
    /\ pc \notin {"new", "failed"}
    /\ i \in procs
    /\ files' = files \cup (IF self.command = "stat"
                            THEN {self.commands[i].outfile} ELSE {Marker(i)})
    /\ files' # files
    /\ UNCHANGED <<pc, args, self, installed, procs, host, op, raised, log, idx,
                   current_tries, starts>>

\* A live process ends (interrupted, or its workload is over): its output
\* file is complete and its transient file is gone.
ToolExit(i) ==
    /\ pc \notin {"new", "failed"}
    /\ i \in procs
    /\ procs' = procs \ {i}
    /\ files' = (files \ {Marker(i)}) \cup {self.commands[i].outfile}
    /\ UNCHANGED <<pc, args, self, installed, host, op, raised, log, idx,
                   current_tries, starts>>

\* ------------------------------------------------------- specifications
\* the working directory before construction: an unrelated file and perhaps
\* a stale copy of a tool's binary
InitFiles == {{sNotes}, {sNotes, sPerf}, {sNotes, sSimpleperf}}

InitWith(argset, instsets, filesets) ==
    /\ pc = "new"
    /\ args \in argset
    /\ self = NoSelf
    /\ files \in filesets
    /\ installed \in instsets
    /\ procs = {}
    /\ host = {}
    /\ op = "none"
    /\ raised = "none"
    /\ log = <<>>
    /\ idx = 1
    /\ current_tries = 0
    /\ starts = 0

\* the arguments the lifecycle is explored with
LifecycleArgs ==
    {a \in Args : /\ a.events.kind = "none"
                  /\ a.report_options = None
                  /\ ~a.force_install
                  /\ a.optionstring.kind = "list"
                  /\ (a.labels.kind = "list" => a.labels.val # <<>>)}

Init == InitWith(LifecycleArgs, {{}, {"user"}}, InitFiles)

Next ==
    \/ Construct
    \/ Reset
    \/ Start
    \/ Stop
    \/ GetTrace
    \/ WaitPoll
    \/ Report
    \/ Pull
    \/ \E i \in 1..MaxVariants : ToolWrite(i)
    \/ \E i \in 1..MaxVariants : ToolExit(i)

Spec == Init /\ [][Next]_vars

\* get_trace() is one blocking call of a running thread: time.sleep returns
\* and every target call returns or raises, so each of its steps is taken
\* once it can be.  Nothing is assumed of the tool on the target.
\* Termination is explored for perf on a target that needs no clean-up.
FairArgs == {a \in LifecycleArgs : a.perf_type = sPerf}

InitFair == InitWith(FairArgs, {{"user"}}, {{sNotes}})

SpecFair ==
    /\ InitFair
    /\ [][Next]_vars
    /\ WF_vars(WaitPoll) /\ WF_vars(Report) /\ WF_vars(Pull)

\* construction alone, over every combination of arguments
InitCtor == InitWith(Args, SUBSET {"user", "system"}, InitFiles)

SpecCtor == InitCtor /\ [][Construct]_vars

\* ----------------------------------------------------------- properties
IsPrefix(a, b) == Len(a) <= Len(b) /\ SubSeq(b, 1, Len(a)) = a

\* the entries of the log made by the call c
CallsOf(c) == SelectSeq(log, LAMBDA e : e.call = c)

\* C1: start() on a controller that is already Running (an earlier start()
\* and no reset() since) is rejected with a LifecycleError and launches no
\* background process.
C1_DoubleStartRejected ==
    (op = "start" /\ starts = 2) =>
        (raised = "LifecycleError" /\ CallsOf("background") = <<>>)

\* C2: the completion wait never sleeps once the retry counter has reached
\* the bound: with a marker file present on every poll the loop leaves with
\* the counter equal to max_tries, warns, and goes on to the reports.
C2_WaitStopsAtBound ==
    /\ current_tries <= max_tries
    /\ (pc = "report" /\ log[Len(log)].call = "warning") => current_tries = max_tries

\* a step of the wait loop itself (not of the tool on the target)
WaitStep == pc = "wait" /\ <<pc, current_tries, log>>' # <<pc, current_tries, log>>

\* C3: a poll made with the counter below the bound that finds no marker
\* file ends the wait at that poll, silently and with the counter unchanged,
\* and what follows the wait is the standard report command for the label.
C3_NormalExitStep ==
    /\ (WaitStep /\ ~MarkerListed(files) /\ current_tries < max_tries) =>
          /\ pc' = "report"
          /\ current_tries' = current_tries
          /\ current_tries' < max_tries
          /\ log' = Append(log, Ls)
    /\ (pc = "report" /\ pc' # "report") =>
          /\ Len(log') > Len(log)
          /\ log'[Len(log) + 1] =
                Call("execute", <<>>, "",
                     _build_perf_report_command(self, self.report_options, self.labels[idx]))

C3_NormalExit == [][C3_NormalExitStep]_vars

\* C3 witness: the markers went away after some sleeps, below the bound, and
\* the reports of the label have been run
C3_Witness ==
    /\ pc = "pull"
    /\ 0 < current_tries
    /\ current_tries < max_tries
    /\ CallsOf("warning") = <<>>
    /\ Len(CallsOf("execute")) = 2

\* every pull of label number i that get_trace is to make
PullsOf(i) ==
    [k \in 1..Len(PullExtensions(self)) |->
        Call("pull", _get_target_file(self.labels[i], PullExtensions(self)[k]), "", NoCmd)]

InLog(e) == \E k \in 1..Len(log) : log[k] = e

\* C4: when a pull has failed in get_trace(), the pulls of every later label
\* have still been attempted by the time get_trace() is over.
C4_LaterLabelsStillPulled ==
    (/\ op = "get_trace"
     /\ pc = "idle"
     /\ raised # "none"
     /\ log # <<>>
     /\ log[Len(log)].call = "pull") =>
        \A i \in (idx + 1)..Len(self.labels) :
            \A k \in 1..Len(PullsOf(i)) : InLog(PullsOf(i)[k])

\* the patterns the specification lists for reset(): .rpt, .data,
\* .rptsamples, out, and the marker substring
ClaimedPattern(file) ==
    \/ Contains(sDot \o sRpt, file)
    \/ Contains(sDot \o sData, file)
    \/ Contains(sDot \o sRptsamples, file)
    \/ Contains(sOut, file)
    \/ Contains(sTemporaryFile, file)

\* C5: after reset() no file matching one of the listed patterns is left in
\* the working directory, the <label>.out files of a stat run included.
C5_ResetLeavesNoArtifact ==
    op = "reset" => \A f \in files : ~ClaimedPattern(f)

\* C6: reset() removes only files matching one of the listed patterns: every
\* remove it issues names such a file, every file it takes away was named in
\* a remove, and every file matching none of the patterns is still there.
C6_ResetStep ==
    op' = "reset" =>
        /\ \A f \in files : ~ClaimedPattern(f) => f \in files'
        /\ \A k \in 1..Len(log') :
              log'[k].call = "remove" =>
                  (ClaimedPattern(log'[k].name) /\ log'[k].name \in files)
        /\ \A f \in files \ files' :
              \E k \in 1..Len(log') : log'[k] = Call("remove", f, "", NoCmd)

C6_ResetRemovesOnlyArtifacts == [][C6_ResetStep]_vars

\* C6 witness: a reset() that removed an artifact and left the unrelated file
C6_Witness ==
    /\ op = "reset"
    /\ CallsOf("remove") # <<>>
    /\ sNotes \in files

\* C7: stop() sends SIGINT to the processes of the tool and SIGINT to the
\* 'sleep' processes.
C7_StopInterruptsSleep ==
    op = "stop" =>
        /\ InLog(Call("killall", self.perf_type, "SIGINT", NoCmd))
        /\ InLog(Call("killall", sSleep, "SIGINT", NoCmd))

\* a labels sequence was supplied whose length differs from the number of
\* option strings
LabelCountMismatch ==
    /\ args.labels.kind = "list"
    /\ Len(args.labels.val) # Len(InitOptionstrings(args))

\* C8 (as stated): construction with len(labels) # len(option strings) always
\* raises a configuration error, for the empty labels sequence too.
C8_MismatchAlwaysRaises ==
    (pc # "new" /\ LabelCountMismatch) => (pc = "failed" /\ raised # "none")

\* C8 (amended): construction with a non-empty labels sequence whose length
\* differs from the number of option strings always raises a ValueError and
\* yields no collector; an empty labels sequence is replaced, like an absent
\* one, by generated labels and never raises the label-count error.
C8_NonEmptyMismatchRaises ==
    /\ (pc # "new" /\ LabelCountMismatch /\ args.labels.val # <<>>) =>
          (pc = "failed" /\ raised \in {"ValueError: perf type", "ValueError: labels"})
    /\ (pc # "new" /\ (args.labels.kind = "none" \/ args.labels.val = <<>>)) =>
          raised # "ValueError: labels"

\* C8 witness: a supplied, non-empty labels sequence of the wrong length was
\* rejected for its length
C8_Witness ==
    /\ pc = "failed"
    /\ raised = "ValueError: labels"
    /\ args.labels.val # <<>>
    /\ LabelCountMismatch

\* what record-mode get_trace does for labels i..n when nothing fails, the
\* warning of a timed-out wait left aside
RECURSIVE RecordPlan(_)
RecordPlan(i) ==
    IF i > Len(self.labels) THEN <<>>
    ELSE <<Ls,
           Call("execute", <<>>, "",
                _build_perf_report_command(self, self.report_options, self.labels[i])),
           Call("execute", <<>>, "",
                _build_perf_report_samples_command(self, "--show-callchain", self.labels[i])),
           Call("pull", self.labels[i] \o sDot \o sRpt, "", NoCmd),
           Call("pull", self.labels[i] \o sDot \o sData, "", NoCmd),
           Call("pull", self.labels[i] \o sDot \o sRptsamples, "", NoCmd)>>
         \o RecordPlan(i + 1)

LogButWarnings == SelectSeq(log, LAMBDA e : e.call # "warning")

\* C9: record-mode get_trace() takes the labels in order and, for each, ends
\* the wait, then runs the two report commands, then pulls <label>.rpt,
\* <label>.data and <label>.rptsamples: at every moment its calls are a
\* prefix of that plan, and they are the whole plan when it returns.
C9_RecordOrder ==
    (op = "get_trace" /\ self.command = "record") =>
        /\ IsPrefix(LogButWarnings, RecordPlan(1))
        /\ (pc = "idle" /\ raised = "none") =>
              /\ LogButWarnings = RecordPlan(1)
              /\ host = UNION {{self.labels[i] \o sDot \o e : e \in {sRpt, sData, sRptsamples}} :
                                  i \in 1..Len(self.labels)}

\* C9 witness: a record-mode get_trace() over two or more labels has returned
C9_Witness ==
    /\ op = "get_trace"
    /\ self.command = "record"
    /\ pc = "idle"
    /\ raised = "none"
    /\ Len(self.labels) >= 2
    /\ Len(CallsOf("pull")) = 3 * Len(self.labels)

\* what stat-mode get_trace does when nothing fails
StatPlan == [i \in 1..Len(self.labels) |-> Call("pull", self.labels[i] \o sDot \o sOut, "", NoCmd)]

\* C10: stat-mode get_trace() never enters the completion wait, runs no
\* command on the target, and pulls <label>.out and nothing else, label by
\* label: one pull per label when it returns.
C10_StatPullsOnlyOut ==
    (op = "get_trace" /\ self.command = "stat") =>
        /\ pc \notin {"wait", "report"}
        /\ current_tries = 0
        /\ IsPrefix(log, StatPlan)
        /\ (pc = "idle" /\ raised = "none") =>
              /\ log = StatPlan
              /\ host = {self.labels[i] \o sDot \o sOut : i \in 1..Len(self.labels)}

\* C10 witness: a stat-mode get_trace() over two or more labels has returned
C10_Witness ==
    /\ op = "get_trace"
    /\ self.command = "stat"
    /\ pc = "idle"
    /\ raised = "none"
    /\ Len(self.labels) >= 2
    /\ Len(log) = Len(self.labels)

\* the file the command built for a label writes
CommandOutfile(label) ==
    label \o sDot \o (IF self.command = "stat" THEN sOut ELSE sData)

\* C11: a constructed collector holds one command per option string, the
\* i-th built from the i-th option string and the i-th label, and start()
\* issues exactly one background launch per command, in order.
C11_OneLaunchPerCommand ==
    pc \notin {"new", "failed"} =>
        /\ Len(self.commands) = Len(InitOptionstrings(args))
        /\ Len(self.commands) = Len(self.labels)
        /\ \A i \in 1..Len(self.commands) :
              /\ self.commands[i].options = OrEmpty(self.optionstrings[i])
              /\ self.commands[i].outfile = CommandOutfile(self.labels[i])
        /\ op = "start" =>
              /\ raised = "none"
              /\ CallsOf("background") =
                    [i \in 1..Len(self.commands) |->
                        Call("background", <<>>, "", self.commands[i])]

\* C11 witness: start() has launched the commands of a collector with
\* several option strings
C11_Witness ==
    /\ op = "start"
    /\ Len(self.commands) >= 2
    /\ Len(CallsOf("background")) = Len(InitOptionstrings(args))

\* the place of the first call c in the log, 0 when there is none
FirstCall(c) ==
    IF \E k \in 1..Len(log) : log[k].call = c
    THEN CHOOSE k \in 1..Len(log) :
            log[k].call = c /\ \A j \in 1..(k - 1) : log[j].call # c
    ELSE 0

\* C12: when a file named like the tool was found in the working directory,
\* __init__ kills the running tool, deletes the file and pushes the binary
\* whatever get_installed answers, the kill and the delete coming before the
\* answer of get_installed is used.
C12_BusyForcesReinstall ==
    (op = "__init__" /\ pc = "idle" /\ FirstCall("execute rm") > 0) =>
        /\ FirstCall("killall") > 0
        /\ FirstCall("killall") < FirstCall("get_installed")
        /\ FirstCall("execute rm") < FirstCall("get_installed")
        /\ FirstCall("install") > FirstCall("get_installed")

\* C13: labels that were not supplied are generated as <perf_type>_<i>,
\* i = 0 .. len(option strings) - 1, and are pairwise distinct.
C13_GeneratedLabelsNameTool ==
    (pc = "idle" /\ (args.labels.kind = "none" \/ args.labels.val = <<>>)) =>
        /\ self.labels = [i \in 1..Len(self.optionstrings) |->
                             args.perf_type \o <<"_">> \o Str(i - 1)]
        /\ \A i, j \in 1..Len(self.labels) : self.labels[i] = self.labels[j] => i = j

\* C14: a construction that ends in a configuration error has made no call
\* on the target and has changed nothing there.
C14_FailedInitStep ==
    pc' = "failed" =>
        /\ raised' \in {"ValueError: perf type", "ValueError: labels", "ValueError: command"}
        /\ log' = <<>>
        /\ files' = files
        /\ installed' = installed
        /\ procs' = procs

C14_ValidationBeforeTarget == [][C14_FailedInitStep]_vars

\* C14 witness: the last of the checks failed with a stale binary lying in
\* the working directory, which a valid construction would have removed
C14_Witness ==
    /\ pc = "failed"
    /\ raised = "ValueError: command"
    /\ args.perf_type \in files

RemovesIn(l) == SelectSeq(l, LAMBDA e : e.call = "remove")

\* C15: a reset() that finds no file matching a listed pattern issues no
\* remove and leaves the directory as it is, and a reset() that follows a
\* reset() removes nothing more.
C15_ResetStep ==
    op' = "reset" =>
        /\ (\A f \in files : ~ClaimedPattern(f)) =>
              (RemovesIn(log') = <<>> /\ files' = files)
        /\ op = "reset" => (RemovesIn(log') = <<>> /\ files' = files)

C15_ResetIdempotent == [][C15_ResetStep]_vars

\* C15 witness: a reset() with nothing to remove, after a record run whose
\* artifacts had been pulled and then removed
C15_Witness ==
    /\ op = "reset"
    /\ self.command = "record"
    /\ host # {}
    /\ RemovesIn(log) = <<>>

InGetTrace == pc \in {"wait", "report", "pull"}

\* C16: record-mode get_trace() always comes to an end: the wait of each
\* label starts its counter at zero, the counter never passes max_tries + 1,
\* and from every point inside get_trace() the call returns or raises,
\* whatever the marker files do.
C16_GetTraceTerminates ==
    /\ [](pc = "wait" => current_tries <= max_tries + 1)
    /\ [][(pc # "wait" /\ pc' = "wait") => current_tries' = 0]_vars
    /\ (InGetTrace ~> pc = "idle")

\* C16 witness: a record-mode get_trace() over several labels has returned
\* although every wait ran into its bound
C16_Witness ==
    /\ op = "get_trace"
    /\ self.command = "record"
    /\ pc = "idle"
    /\ Len(self.labels) >= 2
    /\ Len(CallsOf("warning")) = Len(self.labels)

\* the step of the wait loop that leaves it ended with the warning
WarnedLeaving == log'[Len(log')].call = "warning"

\* C17 (as stated): the wait logs its warning exactly when it leaves the loop
\* with a marker file still listed on its last poll.
C17_WarningOnlyOnGiveUp ==
    [][(WaitStep /\ pc' = "report") => (WarnedLeaving <=> MarkerListed(files))]_vars

\* C17 (amended): the wait logs its warning exactly when the counter has
\* reached the bound as the loop is left: always when it gives up with a
\* marker file still listed, never when a marker-free poll ends it below the
\* bound, but also when a marker-free poll ends it at or past the bound.
C17_WarningStep ==
    (WaitStep /\ pc' = "report") =>
        /\ WarnedLeaving <=> current_tries >= max_tries
        /\ MarkerListed(files) => WarnedLeaving
        /\ (~MarkerListed(files) /\ current_tries < max_tries) => ~WarnedLeaving

C17_WarningIffBoundReached == [][C17_WarningStep]_vars

\* C17 witness: the loop was left with the counter exactly at the bound,
\* which only a marker-free poll does, and the warning was logged
C17_Witness ==
    /\ pc = "report"
    /\ current_tries = max_tries
    /\ log[Len(log)].call = "warning"

\* C18: whatever start() and stop() calls came before it, reset() ends
\* without an exception, its first target call is the kill of the tool's processes, before any remove,
\* and no start() counts any more: the next start() is a first start again,
\* is accepted and launches every built command.
C18_ResetAnywhere ==
    /\ op = "reset" =>
          /\ raised = "none"
          /\ log[1] = Call("killall", self.perf_type, "default", NoCmd)
          /\ \A k \in 1..Len(log) : log[k].call = "remove" => k > 1
          /\ procs = {}
          /\ starts = 0
    /\ (op = "start" /\ starts = 1) =>
          /\ raised = "none"
          /\ CallsOf("background") =
                [i \in 1..Len(self.commands) |->
                    Call("background", <<>>, "", self.commands[i])]

\* C18 witness: a first start() after a reset() that followed a whole run
\* (the run's files had been pulled)
C18_Witness ==
    /\ op = "start"
    /\ starts = 1
    /\ host # {}
    /\ raised = "none"
    /\ Len(CallsOf("background")) >= 2

\* a step of get_trace itself (not of the tool on the target)
GetTraceStep ==
    InGetTrace /\ <<pc, log, current_tries>>' # <<pc, log, current_tries>>

\* the files record-mode get_trace has pulled once labels 1..n are done
PulledUpTo(n) ==
    UNION {{self.labels[i] \o sDot \o e : e \in {sRpt, sData, sRptsamples}} : i \in 1..n}

\* get_trace() has ended in the exception of a report command
ReportFailed ==
    /\ op = "get_trace"
    /\ pc = "idle"
    /\ raised = "TargetError"
    /\ log # <<>>
    /\ log[Len(log)].call = "execute"

\* C19: a report command that fails ends record-mode get_trace() with its
\* exception; the files pulled for the earlier labels are still in outdir,
\* and no step of get_trace() takes a file away from outdir or from the
\* working directory.
C19_Step ==
    /\ InGetTrace => host \subseteq host'
    /\ GetTraceStep =>
          /\ files \subseteq files'
          /\ \A k \in 1..Len(log') : log'[k].call \notin {"remove", "execute rm"}
    /\ (pc = "report" /\ pc' = "idle") =>
          /\ raised' = "TargetError"
          /\ ReportFailed'
          /\ host' = host
          /\ host' = PulledUpTo(idx - 1)

C19_ReportFailureKeepsArtifacts == [][C19_Step]_vars

\* C19 witness: the report of a later label failed after an earlier label
\* had been pulled
C19_Witness ==
    /\ ReportFailed
    /\ idx >= 2
    /\ host # {}

\* C20: once constructed, the object's commands, labels, events, mode and
\* binary path are changed by no operation.
C20_ConfigStep ==
    pc # "new" =>
        /\ self'.commands = self.commands
        /\ self'.labels = self.labels
        /\ self'.events = self.events
        /\ self'.command = self.command
        /\ self'.binary = self.binary

C20_ConfigImmutable == [][C20_ConfigStep]_vars

\* C20 witness: a collector with commands after a run that was started,
\* pulled and reset
C20_Witness ==
    /\ op = "reset"
    /\ host # {}
    /\ self.commands # <<>>
    /\ self.commands = _build_commands(self)

====
